---- MODULE Spec2Model ----
(***************************************************************************)
(* A model of docs/examples/language_model/language_model.ipynb: the       *)
(* truncated-BPTT training loop (train), the evaluation loop (evaluate),   *)
(* and the cache-model evaluation (get_batch, evaluate_cache), together    *)
(* with the notebook globals they read and write (trainer, model           *)
(* parameters, bptt, the saved checkpoints).                               *)
(*                                                                         *)
(* The neural network, the loss and the optimizer are framework code; they *)
(* are abstracted to small deterministic integer functions that depend on  *)
(* every input the real ones depend on (parameters, hidden state, input    *)
(* token, target token, dropout in training mode).  Real-valued quantities *)
(* are exact rationals <<numerator, denominator>> in lowest terms.         *)
(***************************************************************************)
EXTENDS Integers, Sequences, FiniteSets, TLC

(***************************************************************************)
(* Hyperparameters of the notebook, scaled down so that TLC can enumerate  *)
(* the runs.  The notebook's values are given in the comments.             *)
(***************************************************************************)
\* len(context): the notebook sets num_gpus = 1 (one device)
num_gpus == 2
\* columns of a batch per device: the notebook sets batch_size = 20 * len(context)
per_ctx == 1
\* window of the BPTT batchifier: the notebook builds it with bptt = 35
seq_len == 2
\* the notebook sets log_interval = 200
log_interval == 2
\* largest `epochs` argument passed to train (the notebook passes 3)
MaxEpochs == 2
\* number of train calls in one run of the notebook (the notebook makes 2)
MaxCalls == 2
\* largest value the global bptt takes for evaluate_cache (the notebook sets 2000)
MaxBptt == 3
\* longest data source handed to evaluate_cache
MaxCacheLen == 5
\* number of evaluate_cache calls in one run (the notebook makes 4)
MaxCacheCalls == 3

\* the learning rate of the notebook (lr = 20) and a second value for the argument
lr_default == 20
lr_other == 5

batch_size == per_ctx * num_gpus
context == 1..num_gpus

model_name == "standard_lstm_lm_200"
dataset_name == "wikitext-2"

(***************************************************************************)
(* Exact rationals.                                                        *)
(***************************************************************************)
\* Euclid's algorithm (as a function, its arguments are values when it is applied)
Euclid[a \in Int, b \in Int] == IF b = 0 THEN a ELSE Euclid[b, a % b]

GCD(a, b) == Euclid[a, b]

\* n/d in lowest terms (as a function, for the same reason)
Reduced[n \in Int, d \in Int] ==
    LET g == GCD(n, d) IN IF g = 0 THEN <<n, d>> ELSE <<n \div g, d \div g>>

Rat(n, d) == Reduced[n, d]

\* a + b (as a function, for the same reason)
RatSum[a \in Int \X Int, b \in Int \X Int] ==
    Rat(a[1] * b[2] + b[1] * a[2], a[2] * b[2])

RatAdd(a, b) == RatSum[a, b]

RatDivInt(a, k) == Rat(a[1], a[2] * k)

RatLess(a, b) == a[1] * b[2] < b[1] * a[2]

Zero == <<0, 1>>

\* float("Inf")
Inf == "Inf"

LessAlways(a, b) == TRUE

LessOrEqual(a, b) == IF b = Inf THEN TRUE ELSE ~RatLess(b, a)

\* val_L < best_val, with best_val possibly +infinity
Less(a, b) == IF b = Inf THEN TRUE ELSE RatLess(a, b)

\* x / n as Python evaluates it: a float division by zero raises ZeroDivisionError
ZeroDivisionError == "ZeroDivisionError"

RECURSIVE SumSeq(_)
SumSeq(s) == IF s = <<>> THEN 0 ELSE Head(s) + SumSeq(Tail(s))

RECURSIVE Flatten(_)
Flatten(ss) == IF ss = <<>> THEN <<>> ELSE Head(ss) \o Flatten(Tail(ss))

Min(a, b) == IF a < b THEN a ELSE b

(***************************************************************************)
(* Data.  A corpus is a sequence of token ids; a data source is named by   *)
(* the descriptor <<offset, length>> of its corpus in a fixed token stream.*)
(***************************************************************************)
VocabSize == 3

Tok(k) == ((k * (k + 1)) \div 2 + k \div 3) % VocabSize

Corpus(d) == [k \in 1..d[2] |-> Tok(d[1] + k)]

\* the length of a corpus that fills exactly nb BPTT windows, plus `extra` tokens
LenFor(nb, extra) == batch_size * (seq_len * nb + 1) + extra

\* nlp.data.batchify.CorpusBPTTBatchify(vocab, bptt, batch_size, last_batch='discard'):
\* the corpus is cut into batch_size columns of equal length, and the columns into
\* windows of seq_len data rows and the same rows shifted by one as targets; tokens
\* that do not fill a column, and a window shorter than seq_len, are dropped.
bptt_batchify(corpus) ==
    LET sample_len == Len(corpus) \div batch_size
        nb == IF sample_len = 0 THEN 0 ELSE (sample_len - 1) \div seq_len
        \* row r (from 1) of column c
        at(c, r) == corpus[(c - 1) * sample_len + r]
    IN [k \in 1..nb |->
          [data   |-> [c \in 1..batch_size |->
                         [t \in 1..seq_len |-> at(c, (k - 1) * seq_len + t)]],
           target |-> [c \in 1..batch_size |->
                         [t \in 1..seq_len |-> at(c, (k - 1) * seq_len + t + 1)]]]]

\* gluon.utils.split_and_load(x, context, batch_axis=1, even_split=True): device j
\* gets the j-th slice of batch_size // len(context) columns
split_and_load(x) ==
    LET per == Len(x) \div num_gpus
    IN [j \in context |-> [c \in 1..per |-> x[(j - 1) * per + c]]]

\* number of elements of a (time x columns) array
Size(X) == SumSeq([c \in 1..Len(X) |-> Len(X[c])])

(***************************************************************************)
(* The network.  A hidden state is [h: one value per column, graph: the    *)
(* batch indices whose recorded forward passes it is still attached to].   *)
(***************************************************************************)
HMod == VocabSize
WMod == VocabSize

\* model.begin_state(batch_size=n, func=mx.nd.zeros, ctx=ctx)
begin_state(n) == [h |-> [c \in 1..n |-> 0], graph |-> {}]

\* one time step of one column: the prediction and the next hidden value
CellOut(w, h, x, drop) == (w + h + x + drop) % VocabSize
CellNext(w, h, x, drop) == (2 * h + x + w + drop + 1) % HMod

RECURSIVE RunCol(_, _, _, _)
\* a column fed through the network: <<predictions, last hidden value>>
RunCol(w, h, xs, drop) ==
    IF xs = <<>> THEN <<(<<>>), h>>
    ELSE LET rest == RunCol(w, CellNext(w, h, Head(xs), drop), Tail(xs), drop)
         IN <<(<<CellOut(w, h, Head(xs), drop)>>) \o rest[1], rest[2]>>

\* output, hidden = model(X, hidden); `rec` is the batch index when the call is
\* recorded by autograd (training), and -1 when it is not (evaluation)
Model(w, X, hidden, drop, rec) ==
    LET run(c) == RunCol(w, hidden.h[c], X[c], drop)
    IN [output |-> [c \in 1..Len(X) |-> run(c)[1]],
        hidden |-> [h |-> [c \in 1..Len(X) |-> run(c)[2]],
                    graph |-> IF rec >= 0 THEN hidden.graph \cup {rec} ELSE {}]]

\* loss(output.reshape(-3, -1), y.reshape(-1)): the cross-entropy of every token,
\* as one flat vector; a right prediction costs 1, a wrong one more
loss(output, y) ==
    Flatten([c \in 1..Len(output) |->
               [t \in 1..Len(output[c]) |-> 1 + ((output[c][t] - y[c][t]) % VocabSize)]])

DetachNothing(hidden) == hidden

\* hidden.detach() of one state
DetachLeaf(hidden) == [hidden EXCEPT !.graph = {}]

DetachSwapped(hs) == [j \in DOMAIN hs |-> DetachLeaf(hs[Len(hs) + 1 - j])]

\* detach(hidden) of a list of states
detach(hs) == [j \in DOMAIN hs |-> DetachLeaf(hs[j])]

\* the gradient that L.backward() leaves in the parameters' grad buffers
Gradient(Lval) == Lval[1] % WMod

\* gluon.utils.clip_global_norm(grads, grad_clip): a gradient whose norm exceeds
\* grad_clip is rescaled to norm grad_clip (here: one unit)
clip_global_norm(g) == IF g > 1 THEN 1 ELSE g

\* trainer.step(1) of plain SGD (momentum 0, wd 0): the update the trainer applies
\* with its own learning rate
SgdUpdate(p, g, rate) ==
    [ver |-> p.ver + 1,
     w   |-> (p.w + g * (1 + ((rate[1] \div 5 + rate[2] \div 4) % 2))) % WMod]

(***************************************************************************)
(* The data sources the cells of the notebook pass around.                 *)
(***************************************************************************)
\* a training corpus long enough for two log lines per epoch, with rows left over
\* that do not fill a window
TrainLong == <<0, LenFor(2 * log_interval + 1, batch_size)>>
\* a corpus of exactly log_interval batches, and one of a single batch
TrainShort == <<1, LenFor(log_interval, 0)>>
ValOne == <<2, LenFor(1, 1)>>
TestTwo == <<3, LenFor(2, 0)>>
\* a corpus too short to fill one window of seq_len x batch_size tokens
TooShort == <<4, LenFor(1, 0) - 1>>

\* <<train_data, val_data, test_data>> of the train calls
TrainArgs ==
    { <<TrainLong, ValOne, TestTwo>>,
      <<TrainShort, TrainShort, TrainShort>>,
      <<ValOne, TooShort, TestTwo>> }

\* the data of the runs with several train calls: log_interval + 1 batches
TrainNext == <<5, LenFor(log_interval + 1, 0)>>

CallArgs == { <<TrainNext, ValOne, ValOne>> }

EvalArgs == {ValOne, TestTwo, TooShort}

\* train_data, val_data, test_data = [bptt_batchify(x) for x in [...]]: every data
\* source of the notebook, batchified once
Batchified ==
    [d \in {TrainLong, TrainShort, TrainNext, ValOne, TestTwo, TooShort} |->
       bptt_batchify(Corpus(d))]

Batches(d) == Batchified[d]

LrArgs == { <<lr_default, 1>>, <<lr_other, 1>> }

VARIABLES
    pc,           \* the statement the notebook's thread is at ("idle": between cells)
    error,        \* the exception that ended the last cell, or "none"
    params,       \* the parameters of `model`: [ver: updates applied, w: weights]
    trainer_lr,   \* trainer.learning_rate
    grads,        \* the grad buffers: [state: "stale" | "fresh" | "clipped", val]
    checkpoints,  \* the .params files written: file name -> [params, call, val]
    n_calls,      \* number of train calls made
    \* the frame of train
    train_data, val_data, test_data, epochs, lr,
    best_val, epoch, total_L, hiddens, i, L, Ls, cur_L, val_L, test_L,
    \* the frame of evaluate
    ev_src, ev_ret, ev_i, ev_total_L, ev_ntotal, ev_hidden, ret,
    \* history: what the current call has done
    ops,          \* the framework calls of the current training batch, in order
    backprop,     \* the batch indices the last backward pass went through
    since_log,    \* the per-batch mean losses added to total_L since its last reset
    log_lines,    \* the batch indices of the log lines printed in this epoch
    ev_visited,   \* the batches the running evaluate call has visited, in order
    events,       \* what the current train call has done so far, in order
    \* the cache model's cells
    bptt,         \* the global bptt (35, then 2000)
    n_cache_calls,
    \* the frame of evaluate_cache
    c_src, c_i, c_total_L, c_hidden, next_word_history, cache_history,
    c_scored,     \* history: the target positions scored by the running call
    c_log,        \* history: what every finished evaluate_cache call returned
    \* a function of the notebook applied on its own
    probe         \* its arguments and what it returned

globalVars == <<params, trainer_lr, grads, checkpoints, n_calls>>
trainVars == <<train_data, val_data, test_data, epochs, lr, best_val, epoch,
               total_L, hiddens, i, L, Ls, cur_L, val_L, test_L>>
evalVars == <<ev_src, ev_ret, ev_i, ev_total_L, ev_ntotal, ev_hidden, ret>>
histVars == <<ops, backprop, since_log, log_lines, ev_visited, events>>
cacheVars == <<bptt, n_cache_calls, c_src, c_i, c_total_L, c_hidden,
               next_word_history, cache_history, c_scored, c_log>>
vars == <<pc, error, globalVars, trainVars, evalVars, histVars, cacheVars, probe>>

None == <<>>

\* model.initialize(...); trainer = gluon.Trainer(..., {'learning_rate': lr, ...})
Init ==
    /\ pc = "idle"
    /\ error = "none"
    /\ params \in {[ver |-> 0, w |-> w0] : w0 \in 0..(WMod - 1)}
    /\ trainer_lr = <<lr_default, 1>>
    /\ grads = [state |-> "stale", val |-> 0]
    /\ checkpoints = <<>>
    /\ n_calls = 0
    /\ train_data = <<0, 0>> /\ val_data = <<0, 0>> /\ test_data = <<0, 0>>
    /\ epochs = 0 /\ lr = <<lr_default, 1>>
    /\ best_val = Inf /\ epoch = 0 /\ total_L = Zero
    /\ hiddens = <<>> /\ i = 0 /\ L = [val |-> Zero, graph |-> {}] /\ Ls = <<>>
    /\ cur_L = Zero /\ val_L = Zero /\ test_L = Zero
    /\ ev_src = <<0, 0>> /\ ev_ret = "cell" /\ ev_i = 0 /\ ev_total_L = 0
    /\ ev_ntotal = 0 /\ ev_hidden = begin_state(batch_size) /\ ret = Zero
    /\ ops = <<>> /\ backprop = {} /\ since_log = <<>> /\ log_lines = <<>>
    /\ ev_visited = <<>>
    /\ events = <<>>
    /\ bptt = seq_len
    /\ n_cache_calls = 0
    /\ c_src = <<0, 0>> /\ c_i = 0 /\ c_total_L = 0 /\ c_hidden = begin_state(1)
    /\ next_word_history = None /\ cache_history = None
    /\ c_scored = <<>> /\ c_log = <<>>
    /\ probe = None

(***************************************************************************)
(* train(model, train_data, val_data, test_data, epochs, lr)               *)
(***************************************************************************)
StepBeforeClip == <<"detach", "forward", "backward", "step", "clip", "accum">>

\* the framework calls of one iteration of the batch loop, in program order
TrainBatchOrder == <<"detach", "forward", "backward", "clip", "step", "accum">>

\* the statement that follows statement `at` in the body of the batch loop
After(at) ==
    LET k == CHOOSE n \in 1..Len(TrainBatchOrder) : TrainBatchOrder[n] = at
    IN TrainBatchOrder[k + 1]

\* hidden = model.begin_state(batch_size=batch_size, func=mx.nd.zeros, ctx=ctx)
EvalStaleState == ev_hidden

EvalBeginState == begin_state(batch_size)

\* the state a new evaluate call starts from
EvalEnter(src, to) ==
    /\ ev_src' = src
    /\ ev_ret' = to
    /\ ev_i' = 0
    /\ ev_total_L' = 0
    /\ ev_ntotal' = 0
    /\ ev_hidden' = EvalBeginState
    /\ ev_visited' = <<>>
    /\ UNCHANGED ret

\* a cell calls train: best_val = float("Inf"), and the epoch loop starts
TrainEnter(args, calls) ==
    /\ pc = "idle"
    /\ n_calls < calls
    /\ \E a \in args, e \in 1..MaxEpochs, r \in LrArgs :
         /\ train_data' = a[1] /\ val_data' = a[2] /\ test_data' = a[3]
         /\ epochs' = e
         /\ lr' = r
         /\ events' = <<<<"call", r>>>>
    /\ n_calls' = n_calls + 1
    /\ best_val' = Inf
    /\ epoch' = 0
    /\ total_L' = Zero /\ hiddens' = <<>> /\ i' = 0
    /\ L' = [val |-> Zero, graph |-> {}] /\ Ls' = <<>>
    /\ cur_L' = Zero /\ val_L' = Zero /\ test_L' = Zero
    /\ ops' = <<>> /\ backprop' = {} /\ since_log' = <<>> /\ log_lines' = <<>>
    /\ error' = "none"
    /\ pc' = "epoch"
    /\ UNCHANGED <<probe, cacheVars, params, trainer_lr, grads, checkpoints, evalVars, ev_visited>>

\* the notebook run up to its first train call, on any of the data sources
TrainCall == TrainEnter(TrainArgs, 1)

\* a run of several train calls, one after the other, on the shared trainer
TrainCallAgain == TrainEnter(CallArgs, MaxCalls)

EpochsLeftButOne == epoch + 1 < epochs

\* for epoch in range(epochs): the loop has another epoch to run
EpochsLeft == epoch < epochs

\* for epoch in range(epochs): total_L = 0.0; hiddens = [begin_state ...]
EpochStart ==
    /\ pc = "epoch"
    /\ EpochsLeft
    /\ total_L' = Zero
    /\ since_log' = <<>>
    /\ log_lines' = <<>>
    /\ hiddens' = [j \in context |-> begin_state(batch_size \div num_gpus)]
    /\ i' = 0
    /\ pc' = "batch"
    /\ UNCHANGED <<probe, cacheVars, error, globalVars, train_data, val_data, test_data, epochs, lr,
                   best_val, epoch, L, Ls, cur_L, val_L, test_L, evalVars,
                   ops, backprop, ev_visited, events>>

\* the epoch loop is exhausted: train prints the throughput and returns
TrainReturn ==
    /\ pc = "epoch"
    /\ ~EpochsLeft
    /\ pc' = "idle"
    /\ UNCHANGED <<probe, cacheVars, error, globalVars, trainVars, evalVars, histVars>>

\* the device slices of training batch number i (counted from 0)
data_list == split_and_load(Batches(train_data)[i + 1].data)
target_list == split_and_load(Batches(train_data)[i + 1].target)

\* for i, (data, target) in enumerate(train_data): split_and_load; detach; L = 0
TrainDetach ==
    /\ pc = "batch"
    /\ i < Len(Batches(train_data))
    /\ hiddens' = detach(hiddens)
    /\ L' = [val |-> Zero, graph |-> {}]
    /\ Ls' = <<>>
    /\ ops' = <<"detach">>
    /\ pc' = After("detach")
    /\ UNCHANGED <<probe, cacheVars, error, globalVars, train_data, val_data, test_data, epochs, lr,
                   best_val, epoch, total_L, i, cur_L, val_L, test_L, evalVars,
                   backprop, since_log, log_lines, ev_visited, events>>

\* the sum of a list of numbers, added up from left to right
SumLs(ls) ==
    LET RECURSIVE Total(_)
        Total(k) == IF k = 0 THEN Zero ELSE RatAdd(Total(k - 1), ls[k])
    IN Total(Len(ls))

ScaledPerDevice(batch_L, n, size) == [t \in 1..Len(batch_L) |-> Rat(batch_L[t], size)]

\* batch_L / (len(context) * X.size): every token's loss on one of n devices, scaled
Scaled(batch_L, n, size) == [t \in 1..Len(batch_L) |-> Rat(batch_L[t], n * size)]

\* L after the loop over the devices: L = 0, then L = L + l for every device's l
AddUp(l) == [t \in 1..Len(l[1]) |-> SumLs([j \in DOMAIN l |-> l[j][t]])]

\* what L.backward() differentiates: the sum of the elements of L
Backpropagated(l) == SumLs(AddUp(l))

\* [mx.nd.sum(l).asscalar() for l in Ls]
Scalars(l) == [j \in DOMAIN l |-> SumLs(l[j])]

\* with autograd.record(): the forward pass and the loss on every device
TrainForward ==
    /\ pc = "forward"
    /\ \E drop \in 0..1 :
         \* each of fwd, batch_L and l is computed once and then used as a value
         \E fwd \in {[j \in context |->
                        Model(params.w, data_list[j], hiddens[j], drop, i)]} :
         \E batch_L \in {[j \in context |-> loss(fwd[j].output, target_list[j])]} :
         \E l \in {[j \in context |->
                      Scaled(batch_L[j], Cardinality(context), Size(data_list[j]))]} :
            /\ L' = [val |-> Backpropagated(l),
                     graph |-> UNION {fwd[j].hidden.graph : j \in context}]
            /\ Ls' = Scalars(l)
            /\ hiddens' = [j \in context |-> fwd[j].hidden]
    /\ ops' = Append(ops, "forward")
    /\ pc' = After("forward")
    /\ UNCHANGED <<probe, cacheVars, error, globalVars, train_data, val_data, test_data, epochs, lr,
                   best_val, epoch, total_L, i, cur_L, val_L, test_L, evalVars,
                   backprop, since_log, log_lines, ev_visited, events>>

\* L.backward()
TrainBackward ==
    /\ pc = "backward"
    /\ grads' = [state |-> "fresh", val |-> Gradient(L.val)]
    /\ backprop' = L.graph
    /\ ops' = Append(ops, "backward")
    /\ pc' = After("backward")
    /\ UNCHANGED <<probe, cacheVars, error, params, trainer_lr, checkpoints, n_calls, trainVars,
                   evalVars, since_log, log_lines, ev_visited, events>>

\* grads = [p.grad(x.context) ...]; gluon.utils.clip_global_norm(grads, grad_clip)
TrainClip ==
    /\ pc = "clip"
    /\ grads' = [state |-> "clipped", val |-> clip_global_norm(grads.val)]
    /\ ops' = Append(ops, "clip")
    /\ pc' = After("clip")
    /\ UNCHANGED <<probe, cacheVars, error, params, trainer_lr, checkpoints, n_calls, trainVars,
                   evalVars, backprop, since_log, log_lines, ev_visited, events>>

\* trainer.step(1)
TrainStep ==
    /\ pc = "step"
    /\ params' = SgdUpdate(params, grads.val, trainer_lr)
    /\ grads' = [grads EXCEPT !.state = "stale"]
    /\ ops' = Append(ops, "step")
    /\ events' = Append(events, <<"batch", epoch, i>>)
    /\ pc' = After("step")
    /\ UNCHANGED <<probe, cacheVars, error, trainer_lr, checkpoints, n_calls, trainVars,
                   evalVars, backprop, since_log, log_lines, ev_visited>>

\* i % log_interval == 0 and i > 0
LogDue(k) == k % log_interval = 0 /\ k > 0

\* total_L += sum(...); then the log test
TrainAccum ==
    /\ pc = "accum"
    /\ total_L' = RatAdd(total_L, SumLs(Ls))
    /\ since_log' = Append(since_log, SumLs(Ls))
    /\ IF LogDue(i)
         THEN /\ pc' = "log"
              /\ i' = i
         ELSE /\ pc' = "batch"
              /\ i' = i + 1
    /\ UNCHANGED <<probe, cacheVars, error, globalVars, train_data, val_data, test_data, epochs, lr,
                   best_val, epoch, hiddens, L, Ls, cur_L, val_L, test_L, evalVars,
                   ops, backprop, log_lines, ev_visited, events>>

\* cur_L = total_L / log_interval; print('[Epoch %d Batch %d/%d] loss ..., ppl ...')
TrainLog ==
    /\ pc = "log"
    /\ cur_L' = RatDivInt(total_L, log_interval)
    /\ log_lines' = Append(log_lines, i)
    /\ pc' = "log_reset"
    /\ UNCHANGED <<probe, cacheVars, error, globalVars, train_data, val_data, test_data, epochs, lr,
                   best_val, epoch, total_L, hiddens, i, L, Ls, val_L, test_L,
                   evalVars, ops, backprop, since_log, ev_visited, events>>

\* total_L = 0.0 after the log line, and on to the next batch
TrainLogReset ==
    /\ pc = "log_reset"
    /\ total_L' = Zero
    /\ since_log' = <<>>
    /\ i' = i + 1
    /\ pc' = "batch"
    /\ UNCHANGED <<probe, cacheVars, error, globalVars, train_data, val_data, test_data, epochs, lr,
                   best_val, epoch, hiddens, L, Ls, cur_L, val_L, test_L,
                   evalVars, ops, backprop, log_lines, ev_visited, events>>

\* the batch loop is exhausted: val_L = evaluate(model, val_data, batch_size, context[0])
TrainValidate ==
    /\ pc = "batch"
    /\ i >= Len(Batches(train_data))
    /\ EvalEnter(val_data, "val")
    /\ pc' = "ev_loop"
    /\ UNCHANGED <<probe, cacheVars, error, globalVars, trainVars, ops, backprop, since_log, log_lines, events>>

(***************************************************************************)
(* evaluate(model, data_source, batch_size, ctx)                           *)
(***************************************************************************)
\* a cell calls evaluate(model, data, batch_size, context[0]) on its own
EvaluateCall ==
    /\ pc = "idle"
    /\ \E d \in EvalArgs : EvalEnter(d, "cell")
    /\ error' = "none"
    /\ pc' = "ev_loop"
    /\ UNCHANGED <<probe, cacheVars, globalVars, trainVars, ops, backprop, since_log, log_lines, events>>

\* one iteration of `for i, (data, target) in enumerate(data_source)`
EvaluateBatch ==
    /\ pc = "ev_loop"
    /\ ev_i < Len(Batches(ev_src))
    /\ \E b \in {Batches(ev_src)[ev_i + 1]} :
       \E fwd \in {Model(params.w, b.data, ev_hidden, 0, -1)} :
       \E Lvec \in {loss(fwd.output, b.target)} :
          /\ ev_hidden' = DetachLeaf(fwd.hidden)
          /\ ev_total_L' = ev_total_L + SumSeq(Lvec)
          /\ ev_ntotal' = ev_ntotal + Len(Lvec)
    /\ ev_visited' = Append(ev_visited, ev_i)
    /\ ev_i' = ev_i + 1
    /\ UNCHANGED <<probe, cacheVars, pc, error, globalVars, trainVars, ev_src, ev_ret, ret,
                   ops, backprop, since_log, log_lines, events>>

QuotientOffByOne(total, n) == Rat(total, n + 1)

QuotientGuarded(total, n) == IF n = 0 THEN Zero ELSE Rat(total, n)

\* total_L / ntotal
Quotient(total, n) == IF n = 0 THEN ZeroDivisionError ELSE Rat(total, n)

\* return total_L / ntotal, to the statement of the caller that takes the value
EvaluateReturn ==
    /\ pc = "ev_loop"
    /\ ev_i >= Len(Batches(ev_src))
    /\ LET q == Quotient(ev_total_L, ev_ntotal)
       IN IF q = ZeroDivisionError
            THEN \* nothing catches the exception: it ends the cell
                 /\ error' = ZeroDivisionError
                 /\ pc' = "idle"
                 /\ UNCHANGED <<probe, cacheVars, ret, val_L, test_L, events>>
            ELSE /\ ret' = q
                 /\ events' = CASE ev_ret = "val" -> Append(events, <<"val", epoch, q>>)
                                [] ev_ret = "test" -> Append(events, <<"test", epoch>>)
                                [] OTHER -> events
                 /\ error' = error
                 /\ val_L' = IF ev_ret = "val" THEN q ELSE val_L
                 /\ test_L' = IF ev_ret = "test" THEN q ELSE test_L
                 /\ pc' = CASE ev_ret = "val" -> "compare"
                            [] ev_ret = "test" -> "save"
                            [] OTHER -> "idle"
    /\ UNCHANGED <<probe, cacheVars, globalVars, train_data, val_data, test_data, epochs, lr, best_val,
                   epoch, total_L, hiddens, i, L, Ls, cur_L,
                   ev_src, ev_ret, ev_i, ev_total_L, ev_ntotal, ev_hidden,
                   ops, backprop, since_log, log_lines, ev_visited>>

(***************************************************************************)
(* train, after the validation loss is known                               *)
(***************************************************************************)
\* lr = lr * 0.25
Decay(rate) == Rat(rate[1], rate[2] * 4)

\* '{}_{}-{}.params'.format(model_name, dataset_name, epoch)
FileName(e) == <<model_name, dataset_name, e>>

\* if val_L < best_val: best_val = val_L; test_L = evaluate(model, test_data, ...)
TrainImproved ==
    /\ pc = "compare"
    /\ Less(val_L, best_val)
    /\ best_val' = val_L
    /\ EvalEnter(test_data, "test")
    /\ pc' = "ev_loop"
    /\ UNCHANGED <<probe, cacheVars, error, globalVars, train_data, val_data, test_data, epochs, lr,
                   epoch, total_L, hiddens, i, L, Ls, cur_L, val_L, test_L,
                   ops, backprop, since_log, log_lines, events>>

\* model.save_parameters(...); print('test loss ...'); the epoch ends
TrainSave ==
    /\ pc = "save"
    /\ checkpoints' =
         [f \in DOMAIN checkpoints \cup {FileName(epoch)} |->
            IF f = FileName(epoch)
              THEN [params |-> params, call |-> n_calls, val |-> val_L]
              ELSE checkpoints[f]]
    /\ events' = Append(events, <<"save", epoch>>)
    /\ epoch' = epoch + 1
    /\ pc' = "epoch"
    /\ UNCHANGED <<probe, cacheVars, error, params, trainer_lr, grads, n_calls, train_data, val_data,
                   test_data, epochs, lr, best_val, total_L, hiddens, i, L, Ls,
                   cur_L, val_L, test_L, evalVars,
                   ops, backprop, since_log, log_lines, ev_visited>>

\* else: lr = lr*0.25; trainer.set_learning_rate(lr); the epoch ends
TrainDecay ==
    /\ pc = "compare"
    /\ ~Less(val_L, best_val)
    /\ lr' = Decay(lr)
    /\ trainer_lr' = Decay(lr)
    /\ events' = Append(events, <<"decay", epoch>>)
    /\ epoch' = epoch + 1
    /\ pc' = "epoch"
    /\ UNCHANGED <<probe, cacheVars, error, params, grads, checkpoints, n_calls, train_data, val_data,
                   test_data, epochs, best_val, total_L, hiddens, i, L, Ls,
                   cur_L, val_L, test_L, evalVars,
                   ops, backprop, since_log, log_lines, ev_visited>>

\* the steps of a running train or evaluate call
Running ==
    \/ EpochStart
    \/ TrainReturn
    \/ TrainDetach
    \/ TrainForward
    \/ TrainBackward
    \/ TrainClip
    \/ TrainStep
    \/ TrainAccum
    \/ TrainLog
    \/ TrainLogReset
    \/ TrainValidate
    \/ EvaluateBatch
    \/ EvaluateReturn
    \/ TrainImproved
    \/ TrainSave
    \/ TrainDecay

Next ==
    \/ TrainCall
    \/ EvaluateCall
    \/ Running

Spec == Init /\ [][Next]_vars

NextCalls ==
    \/ TrainCallAgain
    \/ Running

\* the data of the runs to completion: a train call that logs, and one whose
\* validation data yields no batch
FairArgs == { <<TrainNext, ValOne, TestTwo>>, <<ValOne, TooShort, TestTwo>> }

\* train(model, train_data, val_data, test_data, epochs, lr) with the notebook's lr
FairCall == TrainEnter(FairArgs, 1) /\ lr' = <<lr_default, 1>>

NextFair ==
    \/ FairCall
    \/ Running

\* the notebook kernel runs a started cell to its end, one statement after the other
FairSpec == Init /\ [][NextFair]_vars /\ WF_vars(Running)

\* the notebook run with several train calls
CallsSpec == Init /\ [][NextCalls]_vars

(***************************************************************************)
(* The cache model: get_batch and evaluate_cache                           *)
(***************************************************************************)
\* the pretrained weights that get_cache_model loads; no cell updates them
awd_w == 1

\* window = 2: the number of past time steps the cache keeps
window == 2

\* val_test_batch_size = 1
val_test_batch_size == 1

\* Python's s[a:b] for 0 <= a (positions counted from 0, b excluded)
Slice(s, a, b) ==
    LET hi == Min(b, Len(s))
    IN IF hi <= a THEN <<>> ELSE [k \in 1..(hi - a) |-> s[a + k]]

\* the last n elements of s
LastN(s, n) == Slice(s, IF Len(s) > n THEN Len(s) - n ELSE 0, Len(s))

GetBatchBuiltWidth(data_source, at, width) ==
    LET seqlen == Min(seq_len, Len(data_source) - 1 - at)
    IN [data   |-> Slice(data_source, at, at + seqlen),
        target |-> Slice(data_source, at + 1, at + 1 + seqlen)]

\* get_batch(data_source, i): seq_len = min(bptt, len(data_source) - 1 - i)
get_batch(data_source, at, width) ==
    LET seqlen == Min(width, Len(data_source) - 1 - at)
    IN [data   |-> Slice(data_source, at, at + seqlen),
        target |-> Slice(data_source, at + 1, at + 1 + seqlen)]

RECURSIVE CacheRun(_, _, _, _, _)
\* the cache cell over one window: every step scores its target token with the
\* language model's prediction, or with the cache when the cache holds the same
\* prediction followed by the same word; <<costs, next words, predictions, hidden>>
CacheRun(xs, ys, words, preds, h) ==
    IF xs = <<>> THEN <<(<<>>), words, preds, h>>
    ELSE LET o == CellOut(awd_w, h, Head(xs), 0)
             hit == \E k \in 1..Len(words) : words[k] = Head(ys) /\ preds[k] = o
             cost == IF hit THEN 1 ELSE 2 + ((o - Head(ys)) % VocabSize)
             rest == CacheRun(Tail(xs), Tail(ys),
                              LastN(Append(words, Head(ys)), window),
                              LastN(Append(preds, o), window),
                              CellNext(awd_w, h, Head(xs), 0))
         IN <<(<<cost>>) \o rest[1], rest[2], rest[3], rest[4]>>

\* outs, next_word_history, cache_history, hidden =
\*     model(data, target, next_word_history, cache_history, hidden)
\* outs as the costs -log(out) of the target tokens
cache_model(data, target, words, preds, hidden) ==
    LET run == CacheRun(data, target, words, preds, hidden.h[1])
    IN [outs |-> run[1], next_word_history |-> run[2], cache_history |-> run[3],
        hidden |-> [h |-> <<run[4]>>, graph |-> {}]]

\* the data sources of the cache cells: val_test_batchify(dataset), one column
CacheArgs == {<<6, n>> : n \in 0..MaxCacheLen} \cup {<<11, MaxCacheLen>>}

\* the cell that sets window, theta, lambdas and bptt and loads the cache model
CacheCell ==
    /\ pc = "idle"
    /\ n_cache_calls = 0
    /\ \E b \in 1..MaxBptt : bptt' = b
    /\ UNCHANGED <<pc, error, globalVars, trainVars, evalVars, histVars, probe,
                   n_cache_calls, c_src, c_i, c_total_L, c_hidden,
                   next_word_history, cache_history, c_scored, c_log>>

CacheStaleState == c_hidden

\* hidden = model.begin_state(batch_size=batch_size, func=mx.nd.zeros, ctx=ctx)
CacheBeginState == begin_state(val_test_batch_size)

\* next_word_history = None; cache_history = None
CacheBeginHistory == None

\* a cell calls evaluate_cache(cache_model, data, val_test_batch_size, context[0])
EvaluateCacheCall ==
    /\ pc = "idle"
    /\ n_cache_calls < MaxCacheCalls
    /\ n_cache_calls' = n_cache_calls + 1
    /\ \E d \in CacheArgs : c_src' = d
    /\ c_total_L' = 0
    /\ c_hidden' = CacheBeginState
    /\ next_word_history' = CacheBeginHistory
    /\ cache_history' = CacheBeginHistory
    /\ c_i' = 0
    /\ c_scored' = <<>>
    /\ error' = "none"
    /\ pc' = "c_loop"
    /\ UNCHANGED <<globalVars, trainVars, evalVars, histVars, probe, bptt, c_log>>

\* the record of a finished call
Finished(val) ==
    [src |-> c_src, bptt |-> bptt, val |-> val, total |-> c_total_L,
     scored |-> c_scored]

\* for i in range(0, len(data_source) - 1, bptt): if i == bptt: return total_L / i
EvaluateCacheEarlyReturn ==
    /\ pc = "c_loop"
    /\ c_i < c_src[2] - 1
    /\ c_i = bptt
    /\ c_log' = Append(c_log, Finished(Quotient(c_total_L, c_i)))
    /\ pc' = "idle"
    /\ UNCHANGED <<error, globalVars, trainVars, evalVars, histVars, probe, bptt,
                   n_cache_calls, c_src, c_i, c_total_L, c_hidden,
                   next_word_history, cache_history, c_scored>>

\* one window: get_batch, the cache model, total_L += L / data.shape[1], detach
EvaluateCacheWindow ==
    /\ pc = "c_loop"
    /\ c_i < c_src[2] - 1
    /\ c_i # bptt
    /\ LET b == get_batch(Corpus(c_src), c_i, bptt)
           r == cache_model(b.data, b.target, next_word_history, cache_history,
                            c_hidden)
       IN /\ c_total_L' = c_total_L + SumSeq(r.outs) \div val_test_batch_size
          /\ next_word_history' = r.next_word_history
          /\ cache_history' = r.cache_history
          /\ c_hidden' = DetachLeaf(r.hidden)
          /\ c_scored' = c_scored \o [k \in 1..Len(b.target) |-> c_i + k]
    /\ c_i' = c_i + bptt
    /\ UNCHANGED <<pc, error, globalVars, trainVars, evalVars, histVars, probe, bptt,
                   n_cache_calls, c_src, c_log>>

\* the loop is exhausted: return total_L / len(data_source)
EvaluateCacheReturn ==
    /\ pc = "c_loop"
    /\ c_i >= c_src[2] - 1
    /\ LET q == Quotient(c_total_L, c_src[2])
       IN IF q = ZeroDivisionError
            THEN error' = ZeroDivisionError /\ c_log' = c_log
            ELSE error' = error /\ c_log' = Append(c_log, Finished(q))
    /\ pc' = "idle"
    /\ UNCHANGED <<globalVars, trainVars, evalVars, histVars, probe, bptt,
                   n_cache_calls, c_src, c_i, c_total_L, c_hidden,
                   next_word_history, cache_history, c_scored>>

NextCache ==
    \/ CacheCell
    \/ EvaluateCacheCall
    \/ EvaluateCacheEarlyReturn
    \/ EvaluateCacheWindow
    \/ EvaluateCacheReturn

\* the cells of the cache model, run after the training cells
CacheSpec == Init /\ [][NextCache]_vars

(***************************************************************************)
(* The claims                                                              *)
(***************************************************************************)
TrainBatchPcs == {"forward", "backward", "clip", "step", "accum", "log", "log_reset"}

BatchCalls == <<"detach", "forward", "backward", "clip", "step">>

\* C1: every iteration of train's batch loop makes its framework calls in the
\* order detach, forward (with the loss), backward, clip_global_norm,
\* trainer.step: at every point of the iteration the calls made so far are a
\* prefix of that order, trainer.step runs on gradients that backward has
\* computed and clip_global_norm has clipped since the previous step, and when
\* the iteration reaches the loss accumulation it has made each call exactly
\* once (one optimizer step per batch).
C1_BatchOrder ==
    pc \in TrainBatchPcs =>
        /\ Len(ops) <= Len(BatchCalls)
        /\ ops = SubSeq(BatchCalls, 1, Len(ops))
        /\ pc = "step" => grads.state = "clipped" /\ Len(ops) = 4
        /\ pc = "accum" => grads.state = "stale"
        /\ pc \in {"accum", "log", "log_reset"} => ops = BatchCalls

C1_Witness ==
    /\ pc = "accum"
    /\ i >= 1
    /\ ops = BatchCalls
    /\ params.ver = i + 1

\* C2: every batch train receives from the BPTT batchifier has exactly seq_len
\* time steps in every column of data and target, the hidden states that enter
\* a forward pass are attached to no earlier batch, and the backward pass of a
\* batch goes through the time steps of that batch alone.
C2_TruncatedBPTT ==
    pc \in TrainBatchPcs \cup {"batch"} =>
        /\ \A k \in 1..Len(Batches(train_data)) :
             \A c \in 1..batch_size :
                /\ Len(Batches(train_data)[k].data[c]) = seq_len
                /\ Len(Batches(train_data)[k].target[c]) = seq_len
        /\ pc = "forward" => \A j \in context : hiddens[j].graph = {}
        /\ pc = "backward" => L.graph = {i}
        /\ pc \in {"clip", "step", "accum"} => backprop = {i}

C2_Witness ==
    /\ pc = "clip"
    /\ i >= 1
    /\ backprop = {i}
    /\ train_data = TrainLong
    /\ train_data[2] \div batch_size - 1 > seq_len * Len(Batches(train_data))

RECURSIVE RefLosses(_, _, _)
\* the losses of all target tokens of a data source, the hidden state carried on
RefLosses(w, bs, hid) ==
    IF bs = <<>> THEN <<>>
    ELSE LET f == Model(w, Head(bs).data, hid, 0, -1)
         IN loss(f.output, Head(bs).target) \o RefLosses(w, Tail(bs), f.hidden)

RefAverage(w, bs) ==
    LET all == RefLosses(w, bs, begin_state(batch_size))
    IN Rat(SumSeq(all), Len(all))

\* C3: when evaluate returns a value, it has visited every batch of the data
\* source once and in order, ntotal is the number of target tokens of the data
\* source, and the value is the sum of the losses of all target tokens divided
\* by their number.
C3_EvaluateAverage ==
    [][(pc = "ev_loop" /\ pc' # "ev_loop" /\ error' # ZeroDivisionError) =>
          /\ ev_visited = [k \in 1..Len(Batches(ev_src)) |-> k - 1]
          /\ ev_ntotal = Len(Batches(ev_src)) * seq_len * batch_size
          /\ ret' = RefAverage(params.w, Batches(ev_src))]_vars

C3_Witness ==
    /\ pc = "compare"
    /\ Len(ev_visited) >= 2
    /\ val_L = RefAverage(params.w, Batches(val_data))
    /\ val_L = ret

\* the finished evaluate_cache calls
Finishes == {c_log[k] : k \in DOMAIN c_log}

\* C4: when evaluate_cache returns for a data source of length n >= 2, it has
\* scored every target position 1..n-1 exactly once and in order.
C4_WholeDataSource ==
    \A e \in Finishes :
        e.src[2] >= 2 => e.scored = [k \in 1..(e.src[2] - 1) |-> k]

\* C5: on every return path the value evaluate_cache returns is the sum of the
\* costs of the target tokens it has scored divided by the number of target
\* tokens it has scored.
C5_AveragePerToken ==
    \A e \in Finishes :
        Len(e.scored) > 0 => e.val = Rat(e.total, Len(e.scored))

\* C6: at every optimizer step of a train call the trainer's learning rate is
\* the current value of that call's local lr.
C6_StepUsesLr ==
    pc = "step" => trainer_lr = lr

\* C7: two evaluate_cache calls on the same data source (with the same global
\* bptt) return the same value, whatever calls ran before or between them.
C7_Repeatable ==
    \A a, b \in DOMAIN c_log :
        (c_log[a].src = c_log[b].src /\ c_log[a].bptt = c_log[b].bptt) =>
            c_log[a].val = c_log[b].val

C7_Witness ==
    /\ Len(c_log) = 3
    /\ c_log[1].src = c_log[3].src
    /\ c_log[2].src # c_log[1].src
    /\ c_log[1].val = c_log[3].val
    /\ c_log[2].val # c_log[1].val
    /\ Len(c_log[1].scored) >= 2

\* C8: evaluate leaves the training state alone: no step of a running evaluate
\* call changes the model parameters, the gradients, the trainer's learning
\* rate, lr, best_val, the training hidden states or the checkpoints; every
\* call starts from a zero hidden state; and when validation and test data are
\* the same data source, the test loss of an epoch equals its validation loss.
C8_EvaluateFrame ==
    /\ [][pc = "ev_loop" =>
            UNCHANGED <<params, grads, trainer_lr, lr, best_val, hiddens,
                        checkpoints, ops, backprop>>]_vars
    /\ [](pc = "ev_loop" /\ ev_i = 0 => ev_hidden = begin_state(batch_size))
    /\ [](pc = "save" /\ val_data = test_data => test_L = val_L)

C8_Witness ==
    /\ pc = "save"
    /\ val_data = test_data
    /\ test_L = val_L
    /\ params.ver >= 2
    /\ Len(ev_visited) >= 2

\* C9: evaluate on a data source of zero batches returns no number: the
\* division raises ZeroDivisionError, which ends the cell; inside train the
\* raise leaves best_val, lr, the trainer's learning rate, the checkpoints and
\* the parameters as they were, and no further epoch of the call runs.
C9_EmptyDataRaises ==
    [][(pc = "ev_loop" /\ Len(Batches(ev_src)) = 0) =>
          /\ error' = ZeroDivisionError
          /\ pc' = "idle"
          /\ UNCHANGED <<ret, val_L, test_L, best_val, lr, trainer_lr,
                         checkpoints, params, epoch>>]_vars

C9_Witness ==
    /\ error = ZeroDivisionError
    /\ pc = "idle"
    /\ ev_ret = "val"
    /\ epoch = 0
    /\ epochs > 1
    /\ params.ver >= 1
    /\ checkpoints = <<>>
    /\ best_val = Inf

\* the mean of a sequence of rationals
Mean(ls) == RatDivInt(SumLs(ls), Len(ls))

\* C10: at every log line total_L holds the per-batch mean losses of exactly
\* log_interval batches and the logged loss is their mean; total_L is zero at
\* the start of every epoch and after every log line; an epoch of at most
\* log_interval batches prints no log line.
C10_LogIsMean ==
    /\ pc = "log_reset" =>
          /\ Len(since_log) = log_interval
          /\ cur_L = Mean(since_log)
    /\ (pc = "batch" /\ (i = 0 \/ LogDue(i - 1))) => total_L = Zero
    /\ (pc \in TrainBatchPcs \cup {"batch"}
          /\ Len(Batches(train_data)) <= log_interval) => log_lines = <<>>

\* the number of events of kind k the current call has logged for epoch e
Count(k, e) == Len(SelectSeq(events, LAMBDA x : x[1] = k /\ x[2] = e))

\* the number of epochs of the current call that ended in the else branch
Decays == Len(SelectSeq(events, LAMBDA x : x[1] = "decay"))

\* a < b on losses, best_val being a rational or +infinity
StrictlyLess(a, b) == b = Inf \/ RatLess(a, b)

\* train is running, its evaluate calls included
InTrain ==
    \/ pc \in TrainBatchPcs \cup {"epoch", "batch", "compare", "save"}
    \/ pc = "ev_loop" /\ ev_ret \in {"val", "test"}

\* C11: at the end of every epoch train takes one of two branches: when val_L
\* is strictly below best_val it sets best_val to val_L, evaluates the test
\* data once and saves the parameters once, with lr and the trainer's rate
\* untouched; otherwise, a tie included, it multiplies lr by 0.25, hands the
\* new lr to the trainer, and neither evaluates the test data nor saves.  So
\* lr is always the lr argument times 0.25 to the number of epochs that did
\* not improve.
C11_EpochEnd ==
    /\ [][pc = "compare" =>
            IF StrictlyLess(val_L, best_val)
              THEN /\ best_val' = val_L
                   /\ pc' = "ev_loop" /\ ev_src' = test_data /\ ev_ret' = "test"
                   /\ UNCHANGED <<lr, trainer_lr, checkpoints, epoch>>
              ELSE /\ lr' = Rat(lr[1], 4 * lr[2])
                   /\ trainer_lr' = lr'
                   /\ pc' = "epoch" /\ epoch' = epoch + 1
                   /\ UNCHANGED <<best_val, checkpoints, test_L, evalVars>>]_vars
    /\ [][pc = "save" \/ (pc = "ev_loop" /\ ev_ret = "test") =>
            UNCHANGED <<lr, trainer_lr, best_val>>]_vars
    /\ [][pc = "save" =>
            /\ DOMAIN checkpoints' = DOMAIN checkpoints \cup {FileName(epoch)}
            /\ checkpoints'[FileName(epoch)].params = params
            /\ params' = params
            /\ pc' = "epoch" /\ epoch' = epoch + 1]_vars
    /\ [](pc = "epoch" => \A e \in 0..(epoch - 1) :
            \/ Count("decay", e) = 1 /\ Count("test", e) = 0 /\ Count("save", e) = 0
            \/ Count("decay", e) = 0 /\ Count("test", e) = 1 /\ Count("save", e) = 1)
    /\ [](InTrain => lr = Rat(events[1][2][1], events[1][2][2] * 4^Decays))

C11_Witness ==
    /\ pc = "epoch"
    /\ epoch = 2
    /\ Count("save", 0) = 1
    /\ Count("decay", 1) = 1
    /\ val_L = best_val

\* the validation losses of the epochs the current call has completed
ValLosses ==
    LET vs == SelectSeq(events, LAMBDA x : x[1] = "val" /\ x[2] < epoch)
    IN [k \in 1..Len(vs) |-> vs[k][3]]

RECURSIVE MinLoss(_)
\* the least of a sequence of losses, +infinity for none
MinLoss(vs) ==
    IF vs = <<>> THEN Inf
    ELSE LET m == MinLoss(Tail(vs))
         IN IF StrictlyLess(Head(vs), m) THEN Head(vs) ELSE m

\* the greatest epoch index the current call has saved a checkpoint for
LastSaved ==
    CHOOSE e \in 0..(epoch - 1) :
        /\ Count("save", e) = 1
        /\ \A d \in (e + 1)..(epoch - 1) : Count("save", d) = 0

\* C12: within one call of train best_val starts at +infinity, never increases,
\* and at every epoch boundary is the least validation loss of the epochs
\* completed so far; epoch 0 always improves (test evaluated, checkpoint
\* saved); and the checkpoint of the greatest epoch index saved by the call
\* holds parameters whose validation loss is best_val.
C12_BestVal ==
    /\ [][pc = "idle" /\ pc' = "epoch" => best_val' = Inf]_vars
    /\ [][InTrain /\ InTrain' /\ best_val' # best_val =>
            StrictlyLess(best_val', best_val)]_vars
    /\ [](pc = "epoch" => best_val = MinLoss(ValLosses))
    /\ [](pc = "epoch" /\ epoch >= 1 =>
            /\ Count("test", 0) = 1 /\ Count("save", 0) = 1
            /\ FileName(0) \in DOMAIN checkpoints
            /\ best_val # Inf
            /\ checkpoints[FileName(LastSaved)].call = n_calls
            /\ RefAverage(checkpoints[FileName(LastSaved)].params.w,
                          Batches(val_data)) = best_val)

C12_Witness ==
    /\ pc = "epoch"
    /\ epoch = 2
    /\ LastSaved = 0
    /\ Len(ValLosses) = 2
    /\ ValLosses[2] # best_val
    /\ params # checkpoints[FileName(0)].params

\* the training batches and validation runs the current call has logged, in order
Progress ==
    LET es == SelectSeq(events, LAMBDA x : x[1] \in {"batch", "val"})
    IN [k \in 1..Len(es) |->
          IF es[k][1] = "batch" THEN es[k] ELSE <<"val", es[k][2]>>]

\* one epoch: every training batch in order, then the validation run
EpochPlan(e) ==
    [k \in 1..Len(Batches(train_data)) |-> <<"batch", e, k - 1>>] \o <<<<"val", e>>>>

RECURSIVE CallPlan(_)
\* the first n epochs, one after the other
CallPlan(n) == IF n = 0 THEN <<>> ELSE CallPlan(n - 1) \o EpochPlan(n - 1)

\* every data source of the running call yields at least one batch
NonEmptyData ==
    /\ InTrain
    /\ Len(Batches(train_data)) > 0
    /\ Len(Batches(val_data)) > 0
    /\ Len(Batches(test_data)) > 0

\* C13: on data sources that yield at least one batch each, a call of train
\* ends, without an exception, after exactly `epochs` epochs whatever the
\* learning rate has become; each epoch processes every training batch once
\* and in order, and evaluates the validation data once, after the last
\* training batch and before the first batch of the next epoch.
C13_Terminates ==
    /\ (NonEmptyData /\ pc = "epoch" /\ epoch = 0)
          ~> (pc = "idle" /\ error = "none" /\ epoch = epochs
              /\ Progress = CallPlan(epochs))
    /\ [][NonEmptyData /\ ~InTrain' =>
            /\ pc = "epoch" /\ epoch = epochs /\ error' = "none"
            /\ Progress = CallPlan(epochs)]_vars
    /\ [](NonEmptyData =>
            /\ epoch <= epochs
            /\ Len(Progress) <= Len(CallPlan(epochs))
            /\ Progress = SubSeq(CallPlan(epochs), 1, Len(Progress)))

C13_Witness ==
    /\ pc = "idle"
    /\ error = "none"
    /\ n_calls = 1
    /\ epoch = 2
    /\ Decays = 1
    /\ Len(Batches(train_data)) > 2
    /\ Progress = CallPlan(2)

\* the hidden states of the devices, all zero and attached to nothing
ZeroStates ==
    [j \in context |->
       [h |-> [c \in 1..(batch_size \div Cardinality(context)) |-> 0], graph |-> {}]]

\* C14: every epoch of train starts from one zero state per device, each for
\* batch_size // len(context) sequences; the state fed to the model on device j
\* for batch i > 0 is the state the model returned on device j for batch i-1,
\* detached; and the first batch of an epoch is fed zero states, whatever the
\* epoch before or an evaluate call has left behind.
C14_HiddenPerDevice ==
    /\ [][pc = "epoch" /\ pc' = "batch" => hiddens' = ZeroStates]_vars
    /\ [](pc = "forward" /\ i = 0 => hiddens = ZeroStates)
    /\ [][pc = "forward" =>
            \E drop \in 0..1 : \A j \in context :
                hiddens'[j] = Model(params.w, data_list[j], hiddens[j], drop, i).hidden]_vars
    /\ [][(pc \in TrainBatchPcs /\ pc # "forward") => hiddens' = hiddens]_vars
    /\ [][pc = "batch" /\ pc' = "forward" =>
            /\ DOMAIN hiddens' = context
            /\ \A j \in context :
                 hiddens'[j] = [h |-> hiddens[j].h, graph |-> {}]]_vars
    /\ [][(pc \in {"ev_loop", "compare", "save"}) => hiddens' = hiddens]_vars

C14_Witness ==
    /\ pc = "forward"
    /\ i = 0
    /\ epoch = 1
    /\ hiddens = ZeroStates
    /\ ev_hidden.h # begin_state(batch_size).h
    /\ events[Len(events)][1] = "save"

(***************************************************************************)
(* The loss of one training batch split over n devices, applied on its own *)
(* to any number of devices and any per-token losses.                      *)
(***************************************************************************)
MaxDevices == 3

\* the cross-entropy of a token: 1 for a right prediction, more for a wrong one
TokenLosses == {1, 2}

\* batch_L of every device, for an even split of the batch over n devices
SplitStart ==
    /\ pc = "idle"
    /\ probe = None
    /\ \E n \in 1..MaxDevices, size \in 1..seq_len :
         \E b \in [1..n -> [1..size -> TokenLosses]] :
            probe' = [kind |-> "split", n |-> n, size |-> size, batch_L |-> b]
    /\ pc' = "split"
    /\ UNCHANGED <<error, globalVars, trainVars, evalVars, histVars, cacheVars>>

\* lines 300-304 and 312 for these losses: L, and the scalar added to total_L
SplitApply ==
    /\ pc = "split"
    /\ \E l \in {[j \in 1..probe.n |-> Scaled(probe.batch_L[j], probe.n, probe.size)]} :
         probe' = [kind |-> "loss", n |-> probe.n, size |-> probe.size,
                   batch_L |-> probe.batch_L,
                   L |-> Backpropagated(l), added |-> SumLs(Scalars(l))]
    /\ pc' = "idle"
    /\ UNCHANGED <<error, globalVars, trainVars, evalVars, histVars, cacheVars>>

NextSplit ==
    \/ SplitStart
    \/ SplitApply

SplitSpec == Init /\ [][NextSplit]_vars

\* C15: for a batch split evenly over n devices, the loss train backpropagates
\* and the scalar it adds to total_L are both the sum of the losses of all
\* tokens of the batch divided by the number of tokens of the batch.
C15_MeanOverBatch ==
    (probe # None /\ probe.kind = "loss") =>
        LET all == Flatten(probe.batch_L)
        IN /\ Len(all) = probe.n * probe.size
           /\ probe.L = Rat(SumSeq(all), Len(all))
           /\ probe.added = Rat(SumSeq(all), Len(all))
           /\ probe.L = probe.added

C15_Witness ==
    /\ probe # None
    /\ probe.kind = "loss"
    /\ probe.n = 3
    /\ probe.size = 2
    /\ probe.batch_L[1] # probe.batch_L[2]
    /\ probe.L = <<3, 2>>


(***************************************************************************)
(* get_batch applied on its own to every start index of the loop of        *)
(* evaluate_cache, range(0, len(data_source) - 1, bptt)                    *)
(***************************************************************************)
\* a data source is chosen and the range starts at 0
WindowStart ==
    /\ pc = "idle"
    /\ \E d \in CacheArgs :
         probe' = [kind |-> "window", src |-> d, bptt |-> bptt, i |-> 0,
                   windows |-> <<>>, done |-> FALSE]
    /\ pc' = "w_loop"
    /\ UNCHANGED <<error, globalVars, trainVars, evalVars, histVars, cacheVars>>

\* the next index of the range: data, target = get_batch(data_source, i)
WindowStep ==
    /\ pc = "w_loop"
    /\ probe.i < probe.src[2] - 1
    /\ \E b \in {get_batch(Corpus(probe.src), probe.i, bptt)} :
         probe' = [probe EXCEPT
                     !.windows = Append(@, [i |-> probe.i, data |-> b.data,
                                            target |-> b.target]),
                     !.i = @ + bptt]
    /\ UNCHANGED <<pc, error, globalVars, trainVars, evalVars, histVars, cacheVars>>

\* the range is exhausted
WindowEnd ==
    /\ pc = "w_loop"
    /\ probe.i >= probe.src[2] - 1
    /\ probe' = [probe EXCEPT !.done = TRUE]
    /\ pc' = "idle"
    /\ UNCHANGED <<error, globalVars, trainVars, evalVars, histVars, cacheVars>>

NextWindow ==
    \/ CacheCell
    \/ WindowStart
    \/ WindowStep
    \/ WindowEnd

WindowSpec == Init /\ [][NextWindow]_vars

\* the window that a step of the range has just added
NewWindow == probe'.windows[Len(probe'.windows)]

\* the windows follow one another from position 0 without gap or overlap
Tiled(ws) ==
    /\ ws # <<>> => ws[1].i = 0
    /\ \A k \in 1..(Len(ws) - 1) : ws[k].i + Len(ws[k].data) = ws[k + 1].i

\* the positions of the data source (counted from 0) that the windows hold as data
Covered(ws) == UNION {{ws[k].i + m - 1 : m \in 1..Len(ws[k].data)} : k \in DOMAIN ws}

\* C16: for every start index i of range(0, n - 1, bptt), get_batch returns
\* data and target of the same length seq_len = min(bptt, n - 1 - i), with
\* 1 <= seq_len <= bptt and i + seq_len <= n - 1 (nothing past the end is
\* read), data holding positions i .. i+seq_len-1 and target the positions one
\* further; bptt is the global at the time of the call, whatever the cache
\* cell has set it to; the windows of one range tile positions 0 .. n-2.
C16_Windows ==
    /\ [][(pc = "w_loop" /\ pc' = "w_loop") =>
            LET n == probe.src[2]
                at == probe.i
                seqlen == Min(bptt, n - 1 - at)
                w == NewWindow
            IN /\ w.i = at
               /\ Len(w.data) = seqlen /\ Len(w.target) = seqlen
               /\ 1 <= seqlen /\ seqlen <= bptt
               /\ at + seqlen <= n - 1
               /\ \A k \in 1..seqlen :
                     /\ w.data[k] = Corpus(probe.src)[at + k]
                     /\ w.target[k] = Corpus(probe.src)[at + k + 1]
               /\ probe'.i = at + bptt]_vars
    /\ []((probe # None /\ probe.kind = "window") =>
            /\ Tiled(probe.windows)
            /\ pc = "w_loop" => bptt = probe.bptt
            /\ \A k \in DOMAIN probe.windows : probe.windows[k].i = (k - 1) * probe.bptt
            /\ probe.done =>
                 /\ Covered(probe.windows) = 0..(probe.src[2] - 2)
                 /\ Len(Flatten([k \in DOMAIN probe.windows |-> probe.windows[k].data]))
                      = Cardinality(Covered(probe.windows)))

\* a range of two windows, 3 and 1 long, after the cache cell has set bptt to a
\* value other than the one bptt_batchify was built with
C16_Witness ==
    /\ probe # None
    /\ probe.kind = "window"
    /\ probe.done
    /\ probe.bptt = MaxBptt
    /\ probe.bptt # seq_len
    /\ Len(probe.windows) = 2
    /\ Len(probe.windows[1].target) = MaxBptt
    /\ Len(probe.windows[2].target) < MaxBptt


(***************************************************************************)
(* The notebook's two train calls: one on the data set that the file names *)
(* carry, one on another data set used as train, validation and test data  *)
(***************************************************************************)
OtherData == <<TrainShort, TrainShort, TrainShort>>

TrainCallOnEither == TrainEnter(CallArgs \cup {OtherData}, MaxCalls)

NextEither ==
    \/ TrainCallOnEither
    \/ Running

EitherSpec == Init /\ [][NextEither]_vars

\* the epoch indices of the checkpoint files on disk
SavedEpochs == {f[3] : f \in DOMAIN checkpoints}

\* the checkpoint file with the highest epoch index
HighestFile == CHOOSE f \in DOMAIN checkpoints : \A e \in SavedEpochs : e <= f[3]

\* C17: whenever a train call has returned, the checkpoint file with the
\* highest epoch index was written by that call, the most recent one, and
\* holds the parameters of that call's best validation loss.
C17_LatestCheckpoint ==
    (pc = "idle" /\ error = "none" /\ n_calls >= 1 /\ checkpoints # <<>>) =>
        /\ checkpoints[HighestFile].call = n_calls
        /\ checkpoints[HighestFile].val = best_val

====
